---- MODULE Spec2Model ----
(***************************************************************************)
(* Model of vector_bool.cpp: a single-threaded micro-benchmark that        *)
(* toggles randomly chosen flags first in a pre-faulted byte array and     *)
(* then in a std::vector<bool>, each under a scoped Timer.                 *)
(*                                                                         *)
(* Scaling.  size_t is modelled as 0..SIZE_MAX with arithmetic modulo      *)
(* SIZE_MAX + 1; ITEM_COUNT, ACCESS_COUNT, the width of a vector<bool>     *)
(* storage word (WORD_BIT) and its size in bytes (WordBytes) are scaled    *)
(* down from 8096, 20'000'000, 64 and 8.  A byte keeps its 8 bits.         *)
(*                                                                         *)
(* Environment.  std::malloc may return a null pointer, and the memory it  *)
(* returns holds indeterminate bytes.  high_resolution_clock is, in the    *)
(* libstdc++ build the file documents (g++, line 124), an alias of         *)
(* system_clock, which is not steady: a reading may be smaller than an     *)
(* earlier one.  An exception that leaves main ends the program through    *)
(* std::terminate.  Allocations made by the standard library itself (the   *)
(* index vector, the Timer's name) are taken to succeed.                   *)
(***************************************************************************)
EXTENDS Integers, Sequences, FiniteSets, TLC

\* ---------------------------------------------------------------- bounds
\* Largest size_t value (scaled from 2^64 - 1).
SIZE_MAX == 11
\* constexpr size_t ITEM_COUNT (scaled from 8096).
ITEM_COUNT == 4
\* constexpr size_t ACCESS_COUNT (scaled from 20'000'000).
ACCESS_COUNT == 4
\* Bits per vector<bool> storage word (scaled from 64).
WORD_BIT == 2
\* sizeof of a vector<bool> storage word (scaled from 8).
WordBytes == 2
\* Largest sizeof(T) the allocator is instantiated with in SpecAlloc.
MaxElemSize == 4
\* Largest clock reading.
MaxTick == 1

\* ------------------------------------------------------- program constants
\* double ms = duration / 1e6
NS_PER_MS == 1000000
\* Largest value of a uint8_t.
UINT8_MAX == 255

\* --------------------------------------------------------------- state
VARIABLES
    pc,          \* position in main / in the allocator driver
    item_count,  \* the element-domain size the run is built with
    indices,     \* std::vector<size_t> indices
    i,           \* loop counter of the current for loop
    raw_mem,     \* uint8_t* raw_mem: the bytes it points to
    bool_vec,    \* std::vector<bool>: its storage words
    sink,        \* volatile bool sink
    timer,       \* the live Timer object, or NoTimer
    out,         \* lines written to std::cout
    live,        \* regions obtained from std::malloc and not yet freed
    call,        \* arguments of the latest PreFaultAllocator::allocate
    ret,         \* its outcome
    events,      \* history: lifecycle events in order
    raw_trace,   \* history: raw_mem after 0, 1, 2, ... accesses
    vec_trace    \* history: flags of bool_vec after 0, 1, 2, ... accesses

vars == <<pc, item_count, indices, i, raw_mem, bool_vec, sink, timer, out,
          live, call, ret, events, raw_trace, vec_trace>>

\* --------------------------------------------------------------- helpers
SizeT == 0 .. SIZE_MAX

\* Unsigned size_t arithmetic.
Wrap(x) == ((x % (SIZE_MAX + 1)) + (SIZE_MAX + 1)) % (SIZE_MAX + 1)

RECURSIVE Pow2(_)
Pow2(k) == IF k = 0 THEN 1 ELSE 2 * Pow2(k - 1)

Zeros(n) == [k \in 1 .. n |-> 0]

Clock == 0 .. MaxTick

NoTimer == [name_ |-> "", start_time_ |-> -1]
NoCall == [n |-> 0, esz |-> 0]
NoRet == [status |-> "none", exception |-> "", requested |-> -1, region |-> <<>>]

\* Labels and texts of the program.
RawLabel == "Case 2: Raw Memory (uint8_t*)"
VecLabel == "Case 1: std::vector<bool>"
GeneratingText == "Generating ACCESS_COUNT random indices..."
DoneText == "Done generating indices."

\* A line of standard output: a text line, or a Timer's report line
\* "[<text>] took <ms> ms." with its millisecond value as a fraction.
TextLine(s) == [kind |-> "text", text |-> s, ms |-> [num |-> 0, den |-> 1]]
BlankLine == TextLine("")

\* ----------------------------------------------------------------- Timer
\* Timer::Timer: name_(name), start_time_(high_resolution_clock::now()).
TimerCtor(name, now) == [name_ |-> name, start_time_ |-> now]

\* duration_cast<nanoseconds>(end_time - start_time_).count()
Duration(t, end_time) == end_time - t.start_time_

\* double ms = duration / 1e6, kept as the fraction num / den.
Millis(duration) == [num |-> duration, den |-> NS_PER_MS]

\* Mutant of TimerDtor: the report is written twice.
TimerDtorTwice(t, end_time) ==
    << [kind |-> "report", text |-> t.name_,
        ms |-> Millis(Duration(t, end_time))],
       [kind |-> "report", text |-> t.name_,
        ms |-> Millis(Duration(t, end_time))] >>

\* Timer::~Timer: the lines it writes to std::cout.
TimerDtor(t, end_time) ==
    << [kind |-> "report", text |-> t.name_,
        ms |-> Millis(Duration(t, end_time))] >>

\* ------------------------------------------------------ PreFaultAllocator
\* Mutant of Overflows: the bound is not divided by sizeof(T).
OverflowsLoose(n, esz) == n > SIZE_MAX

\* n > std::numeric_limits<std::size_t>::max() / sizeof(T)
Overflows(n, esz) == n > SIZE_MAX \div esz

\* const size_t bytes_to_allocate = n * sizeof(T)
BytesToAllocate(n, esz) == Wrap(n * esz)

\* What std::malloc(bytes) may hand back: indeterminate bytes.
Malloc(bytes) == [1 .. bytes -> {0, UINT8_MAX}]

\* Mutant of Memset: the last byte is left as std::malloc returned it.
MemsetShort(p, val, count) == [k \in 1 .. Len(p) |-> IF k < count THEN val ELSE p[k]]

\* std::memset(p, val, count)
Memset(p, val, count) == [k \in 1 .. Len(p) |-> IF k <= count THEN val ELSE p[k]]

\* throw std::bad_alloc() at line 39 (the size check) and at line 51 (malloc
\* returned null): the exception object each site throws.
OverflowException == "std::bad_alloc"
NullException == "std::bad_alloc"

Thrown(exception, requested) ==
    [status |-> "thrown", exception |-> exception,
     requested |-> requested, region |-> <<>>]

Returned(requested, p) ==
    [status |-> "ok", exception |-> "", requested |-> requested, region |-> p]

\* PreFaultAllocator<T>::allocate(n) with sizeof(T) = esz: every outcome.
\* requested = -1 records that std::malloc was not called.
allocate(n, esz) ==
    IF Overflows(n, esz)
    THEN {Thrown(OverflowException, -1)}
    ELSE LET bytes == BytesToAllocate(n, esz)
         IN  {Thrown(NullException, bytes)} \cup
             {Returned(bytes, Memset(p, 0, bytes)) : p \in Malloc(bytes)}

\* Mutant of deallocate: the region is never freed.
deallocateLeak(regions, p) == regions

\* PreFaultAllocator<T>::deallocate: std::free(p).
deallocate(regions, p) == regions \ {p}

\* ------------------------------------------------------- the two stores
\* Mutant of Toggle: the byte is set, not flipped.
ToggleSet(b) == 1

\* Mutant of Toggle: the byte is incremented.
ToggleInc(b) == (b + 1) % (UINT8_MAX + 1)

\* raw_mem[idx] = 1 - raw_mem[idx]: int arithmetic, stored to a uint8_t.
Toggle(b) == (((1 - b) % (UINT8_MAX + 1)) + (UINT8_MAX + 1)) % (UINT8_MAX + 1)

\* std::vector<bool>: number of storage words for n flags.
NWords(n) == (n + WORD_BIT - 1) \div WORD_BIT

\* bool_vec[k] read: word k / WORD_BIT, mask 1 << (k % WORD_BIT).
GetFlag(words, k) ==
    (words[(k \div WORD_BIT) + 1] \div Pow2(k % WORD_BIT)) % 2 = 1

\* Mutant of SetFlag: the whole word is overwritten with the new bit.
SetFlagWholeWord(words, k, v) ==
    [words EXCEPT ![(k \div WORD_BIT) + 1] =
        IF v THEN Pow2(k % WORD_BIT) ELSE 0]

\* bool_vec[k] = v: *p |= mask when v, *p &= ~mask otherwise.
SetFlag(words, k, v) ==
    LET w == (k \div WORD_BIT) + 1
        mask == Pow2(k % WORD_BIT)
        isSet == (words[w] \div mask) % 2 = 1
    IN  [words EXCEPT ![w] =
            IF v THEN (IF isSet THEN @ ELSE @ + mask)
                 ELSE (IF isSet THEN @ - mask ELSE @)]

\* The flags of a vector<bool> of n flags, as a function of the position.
Flags(words, n) == [k \in 0 .. n - 1 |-> GetFlag(words, k)]

\* Mutant of Distrib: the upper bound is ITEM_COUNT, not ITEM_COUNT - 1.
DistribInclusive(n) == 0 .. Wrap(n)

\* std::uniform_int_distribution<size_t> distrib(0, ITEM_COUNT - 1): its range.
Distrib(n) == 0 .. Wrap(n - 1)

\* ------------------------------------------------------------------ main
Init ==
    /\ pc = "start"
    /\ item_count = ITEM_COUNT
    /\ indices = <<>>
    /\ i = 0
    /\ raw_mem = <<>>
    /\ bool_vec = <<>>
    /\ sink = FALSE
    /\ timer = NoTimer
    /\ out = <<>>
    /\ live = {}
    /\ call = NoCall
    /\ ret = NoRet
    /\ events = <<>>
    /\ raw_trace = <<>>
    /\ vec_trace = <<>>

\* Lines 73-76: the first progress line, indices(ACCESS_COUNT) value-initialised.
GenBegin ==
    /\ pc = "start"
    /\ out' = Append(out, TextLine(GeneratingText))
    /\ indices' = Zeros(ACCESS_COUNT)
    /\ i' = 0
    /\ pc' = "gen"
    /\ UNCHANGED <<item_count, raw_mem, bool_vec, sink, timer, live, call, ret,
                   events, raw_trace, vec_trace>>

\* Lines 77-79: indices[i] = distrib(gen).
GenStep ==
    /\ pc = "gen"
    /\ i < ACCESS_COUNT
    /\ \E v \in Distrib(item_count) : indices' = [indices EXCEPT ![i + 1] = v]
    /\ i' = i + 1
    /\ UNCHANGED <<pc, item_count, raw_mem, bool_vec, sink, timer, out, live,
                   call, ret, events, raw_trace, vec_trace>>

\* Lines 80-83: "Done generating indices.\n" << std::endl, sink = false.
GenEnd ==
    /\ pc = "gen"
    /\ i = ACCESS_COUNT
    /\ out' = out \o <<TextLine(DoneText), BlankLine>>
    /\ sink' = FALSE
    /\ pc' = "raw_alloc"
    /\ UNCHANGED <<item_count, indices, i, raw_mem, bool_vec, timer, live, call,
                   ret, events, raw_trace, vec_trace>>

\* Line 89: raw_mem = allocator.allocate(ITEM_COUNT), sizeof(uint8_t) = 1.
\* A std::bad_alloc leaves main: std::terminate.
RawAllocate ==
    /\ pc = "raw_alloc"
    /\ call' = [n |-> item_count, esz |-> 1]
    /\ \E r \in allocate(item_count, 1) :
          /\ ret' = r
          /\ IF r.status = "ok"
             THEN /\ raw_mem' = r.region
                  /\ live' = live \cup {"raw_mem"}
                  /\ events' = Append(events, "raw_alloc")
                  /\ pc' = "raw_timer"
             ELSE /\ pc' = "terminated"
                  /\ UNCHANGED <<raw_mem, live, events>>
    /\ UNCHANGED <<item_count, indices, i, bool_vec, sink, timer, out,
                   raw_trace, vec_trace>>

\* Lines 92-93: Timer timer("Case 2: ..."), i = 0.
RawTimerBegin ==
    /\ pc = "raw_timer"
    /\ \E now \in Clock : timer' = TimerCtor(RawLabel, now)
    /\ i' = 0
    /\ events' = Append(events, "raw_timer_start")
    /\ raw_trace' = <<raw_mem>>
    /\ pc' = "raw_loop"
    /\ UNCHANGED <<item_count, indices, raw_mem, bool_vec, sink, out, live,
                   call, ret, vec_trace>>

\* Lines 94-96: one iteration of the raw loop, idx inside the buffer.
RawStep ==
    /\ pc = "raw_loop"
    /\ i < ACCESS_COUNT
    /\ LET idx == indices[i + 1]
       IN  /\ idx < Len(raw_mem)
           /\ raw_mem' = [raw_mem EXCEPT ![idx + 1] = Toggle(@)]
           /\ sink' = (raw_mem'[idx + 1] # 0)
    /\ i' = i + 1
    /\ raw_trace' = Append(raw_trace, raw_mem')
    /\ UNCHANGED <<pc, item_count, indices, bool_vec, timer, out, live, call,
                   ret, events, vec_trace>>

\* Line 98: the inner scope ends, ~Timer reports.
RawTimerEnd ==
    /\ pc = "raw_loop"
    /\ i = ACCESS_COUNT
    /\ \E end_time \in Clock : out' = out \o TimerDtor(timer, end_time)
    /\ timer' = NoTimer
    /\ events' = Append(events, "raw_report")
    /\ pc' = "raw_dealloc"
    /\ UNCHANGED <<item_count, indices, i, raw_mem, bool_vec, sink, live, call,
                   ret, raw_trace, vec_trace>>

\* Line 100: allocator.deallocate(raw_mem, ITEM_COUNT).
RawDeallocate ==
    /\ pc = "raw_dealloc"
    /\ live' = deallocate(live, "raw_mem")
    /\ raw_mem' = <<>>
    /\ events' = Append(events, "raw_dealloc")
    /\ pc' = "vec_alloc"
    /\ UNCHANGED <<item_count, indices, i, bool_vec, sink, timer, out, call,
                   ret, raw_trace, vec_trace>>

\* Line 107: bool_vec(ITEM_COUNT, PreFaultAllocator<bool>()): the allocator,
\* rebound to the storage word, allocates NWords words (none for 0 flags) and
\* the constructor sets every flag to false.
VecConstruct ==
    /\ pc = "vec_alloc"
    /\ IF item_count = 0
       THEN /\ bool_vec' = <<>>
            /\ pc' = "vec_timer"
            /\ UNCHANGED <<call, ret, live, events>>
       ELSE /\ call' = [n |-> NWords(item_count), esz |-> WordBytes]
            /\ \E r \in allocate(NWords(item_count), WordBytes) :
                  /\ ret' = r
                  /\ IF r.status = "ok"
                     THEN /\ bool_vec' = Zeros(NWords(item_count))
                          /\ live' = live \cup {"bool_vec"}
                          /\ events' = Append(events, "vec_alloc")
                          /\ pc' = "vec_timer"
                     ELSE /\ pc' = "terminated"
                          /\ UNCHANGED <<bool_vec, live, events>>
    /\ UNCHANGED <<item_count, indices, i, raw_mem, sink, timer, out,
                   raw_trace, vec_trace>>

\* Lines 109-110: Timer timer("Case 1: ..."), i = 0.
VecTimerBegin ==
    /\ pc = "vec_timer"
    /\ \E now \in Clock : timer' = TimerCtor(VecLabel, now)
    /\ i' = 0
    /\ events' = Append(events, "vec_timer_start")
    /\ vec_trace' = <<Flags(bool_vec, item_count)>>
    /\ pc' = "vec_loop"
    /\ UNCHANGED <<item_count, indices, raw_mem, bool_vec, sink, out, live,
                   call, ret, raw_trace>>

\* Lines 111-113: one iteration of the packed loop.
VecStep ==
    /\ pc = "vec_loop"
    /\ i < ACCESS_COUNT
    /\ LET idx == indices[i + 1]
       IN  /\ idx < item_count
           /\ bool_vec' = SetFlag(bool_vec, idx, ~GetFlag(bool_vec, idx))
           /\ sink' = GetFlag(bool_vec', idx)
    /\ i' = i + 1
    /\ vec_trace' = Append(vec_trace, Flags(bool_vec', item_count))
    /\ UNCHANGED <<pc, item_count, indices, raw_mem, timer, out, live, call,
                   ret, events, raw_trace>>

\* Line 115, first half: locals die in reverse order, so ~Timer runs first.
VecTimerEnd ==
    /\ pc = "vec_loop"
    /\ i = ACCESS_COUNT
    /\ \E end_time \in Clock : out' = out \o TimerDtor(timer, end_time)
    /\ timer' = NoTimer
    /\ events' = Append(events, "vec_report")
    /\ pc' = "vec_destroy"
    /\ UNCHANGED <<item_count, indices, i, raw_mem, bool_vec, sink, live, call,
                   ret, raw_trace, vec_trace>>

\* Line 115, second half: ~vector deallocates the storage words.
VecDestroy ==
    /\ pc = "vec_destroy"
    /\ live' = deallocate(live, "bool_vec")
    /\ bool_vec' = <<>>
    /\ events' = IF "bool_vec" \in live
                 THEN Append(events, "vec_dealloc") ELSE events
    /\ pc' = "final"
    /\ UNCHANGED <<item_count, indices, i, raw_mem, sink, timer, out, call,
                   ret, raw_trace, vec_trace>>

\* Lines 117-120: std::cout << std::endl; return 0.
FinalEndl ==
    /\ pc = "final"
    /\ out' = Append(out, BlankLine)
    /\ pc' = "done"
    /\ UNCHANGED <<item_count, indices, i, raw_mem, bool_vec, sink, timer, live,
                   call, ret, events, raw_trace, vec_trace>>

Next ==
    \/ GenBegin
    \/ GenStep
    \/ GenEnd
    \/ RawAllocate
    \/ RawTimerBegin
    \/ RawStep
    \/ RawTimerEnd
    \/ RawDeallocate
    \/ VecConstruct
    \/ VecTimerBegin
    \/ VecStep
    \/ VecTimerEnd
    \/ VecDestroy
    \/ FinalEndl

Spec == Init /\ [][Next]_vars

\* ------------------------------------------- the allocator on every input
\* PreFaultAllocator<T>::allocate called with any n and any sizeof(T), and
\* the region it returns handed back to deallocate.
InitAlloc ==
    /\ pc = "alloc_call"
    /\ item_count = ITEM_COUNT
    /\ indices = <<>>
    /\ i = 0
    /\ raw_mem = <<>>
    /\ bool_vec = <<>>
    /\ sink = FALSE
    /\ timer = NoTimer
    /\ out = <<>>
    /\ live = {}
    /\ call \in [n : SizeT, esz : 1 .. MaxElemSize]
    /\ ret = NoRet
    /\ events = <<>>
    /\ raw_trace = <<>>
    /\ vec_trace = <<>>

AllocCall ==
    /\ pc = "alloc_call"
    /\ \E r \in allocate(call.n, call.esz) :
          /\ ret' = r
          /\ IF r.status = "ok"
             THEN /\ live' = live \cup {"p"}
                  /\ pc' = "alloc_ret"
             ELSE /\ live' = live
                  /\ pc' = "alloc_thrown"
    /\ UNCHANGED <<item_count, indices, i, raw_mem, bool_vec, sink, timer, out,
                   call, events, raw_trace, vec_trace>>

AllocFree ==
    /\ pc = "alloc_ret"
    /\ live' = deallocate(live, "p")
    /\ pc' = "alloc_freed"
    /\ UNCHANGED <<item_count, indices, i, raw_mem, bool_vec, sink, timer, out,
                   call, ret, events, raw_trace, vec_trace>>

NextAlloc ==
    \/ AllocCall
    \/ AllocFree

SpecAlloc == InitAlloc /\ [][NextAlloc]_vars

\* ------------------------------------------- main with ITEM_COUNT tunable
\* main built with any element-domain size 0 .. ITEM_COUNT in place of the
\* constant of line 69.  With 0 the raw loop indexes a zero-length buffer.
InitTunable ==
    /\ pc = "start"
    /\ item_count \in 0 .. ITEM_COUNT
    /\ indices = <<>>
    /\ i = 0
    /\ raw_mem = <<>>
    /\ bool_vec = <<>>
    /\ sink = FALSE
    /\ timer = NoTimer
    /\ out = <<>>
    /\ live = {}
    /\ call = NoCall
    /\ ret = NoRet
    /\ events = <<>>
    /\ raw_trace = <<>>
    /\ vec_trace = <<>>

\* Line 95 with idx outside the buffer: undefined behaviour; nothing is said
\* about the program from here on.
RawStepOutOfBounds ==
    /\ pc = "raw_loop"
    /\ i < ACCESS_COUNT
    /\ indices[i + 1] >= Len(raw_mem)
    /\ pc' = "undefined"
    /\ UNCHANGED <<item_count, indices, i, raw_mem, bool_vec, sink, timer, out,
                   live, call, ret, events, raw_trace, vec_trace>>

NextTunable ==
    \/ Next
    \/ RawStepOutOfBounds

SpecTunable == InitTunable /\ [][NextTunable]_vars

\* ================================================================ claims

\* C1: whenever allocate(n) succeeds, the region it returns has exactly
\* n * sizeof(T) bytes and every one of them reads as zero when allocate
\* returns.
C1_AllocatedRegionIsZero ==
    ret.status = "ok" =>
        /\ Len(ret.region) = call.n * call.esz
        /\ \A k \in 1 .. Len(ret.region) : ret.region[k] = 0

\* C1 witness: a successful allocation of several multi-byte elements.
C1_Witness ==
    /\ pc = "alloc_ret"
    /\ ret.status = "ok"
    /\ call.esz >= 2
    /\ call.n >= 2
    /\ Len(ret.region) >= 4

\* C2 as stated: a call whose n * sizeof(T) overflows fails without a wrapped
\* request, with a failure that can be told apart from the one raised when
\* the system allocator returns null.
C2_OverflowDistinguishable ==
    (pc # "alloc_call" /\ call.n * call.esz > SIZE_MAX) =>
        /\ ret.status = "thrown"
        /\ ret.requested = -1
        /\ ret.exception # NullException

\* C2 amended: a call whose n * sizeof(T) overflows throws std::bad_alloc
\* without calling std::malloc; every byte count that is requested is the
\* exact product n * sizeof(T); and every failure of allocate, overflow or
\* null from std::malloc, is the same std::bad_alloc.
C2_OverflowThrowsBadAlloc ==
    /\ (pc # "alloc_call" /\ call.n * call.esz > SIZE_MAX) =>
           /\ ret.status = "thrown"
           /\ ret.requested = -1
    /\ ret.requested # -1 => ret.requested = call.n * call.esz
    /\ ret.status = "thrown" => ret.exception = "std::bad_alloc"

\* C2 witness: an overflowing call has thrown.
C2_Witness ==
    /\ pc = "alloc_thrown"
    /\ call.n * call.esz > SIZE_MAX
    /\ call.n <= SIZE_MAX
    /\ ret.requested = -1

\* C3: the workload has exactly ACCESS_COUNT entries, each in
\* 0 .. ITEM_COUNT - 1; once generation is over no step changes it; and the
\* k-th access of the raw loop and of the packed loop changes exactly the
\* position indices[k], so both read the same sequence in the same order.
C3_InRange ==
    pc # "start" =>
        /\ Len(indices) = ACCESS_COUNT
        /\ \A k \in 1 .. Len(indices) : indices[k] >= 0 /\ indices[k] < ITEM_COUNT

C3_ReadInOrder ==
    /\ \A k \in 1 .. Len(raw_trace) - 1 : \A pos \in 0 .. ITEM_COUNT - 1 :
          (raw_trace[k + 1][pos + 1] # raw_trace[k][pos + 1]) <=> (pos = indices[k])
    /\ \A k \in 1 .. Len(vec_trace) - 1 : \A pos \in 0 .. ITEM_COUNT - 1 :
          (vec_trace[k + 1][pos] # vec_trace[k][pos]) <=> (pos = indices[k])

C3_WorkloadFixed ==
    /\ [](C3_InRange /\ C3_ReadInOrder)
    /\ [][pc \notin {"start", "gen"} => indices' = indices]_vars

\* C3 witness: both loops have run over a workload that uses the first and
\* the last position.
C3_Witness ==
    /\ pc = "vec_loop"
    /\ i = ACCESS_COUNT
    /\ Len(raw_trace) = ACCESS_COUNT + 1
    /\ \E k \in 1 .. ACCESS_COUNT : indices[k] = ITEM_COUNT - 1
    /\ \E k \in 1 .. ACCESS_COUNT : indices[k] = 0

\* C4: both stores start all-false and, after the k-th access for every k,
\* hold the same logical state: raw_mem[pos] != 0 equals bool_vec[pos] at
\* every position.
C4_SameLogicalState ==
    /\ Len(vec_trace) <= Len(raw_trace) \/ vec_trace = <<>>
    /\ Len(raw_trace) >= 1 => \A pos \in 1 .. ITEM_COUNT : raw_trace[1][pos] = 0
    /\ \A k \in 1 .. Len(vec_trace) : \A pos \in 0 .. ITEM_COUNT - 1 :
          (raw_trace[k][pos + 1] # 0) = vec_trace[k][pos]
    /\ pc = "vec_loop" => vec_trace[i + 1] = Flags(bool_vec, ITEM_COUNT)

\* C4 witness: the run over indices [0, 1, 0, 3] has ended and exactly the
\* positions 1 and 3 are true in both stores.
C4_Witness ==
    /\ pc = "done"
    /\ indices = <<0, 1, 0, 3>>
    /\ \A pos \in 0 .. ITEM_COUNT - 1 :
          /\ vec_trace[Len(vec_trace)][pos] = (pos \in {1, 3})
          /\ (raw_trace[Len(raw_trace)][pos + 1] # 0) = (pos \in {1, 3})

\* C5: in both stores the value at idx after a second flip of idx, with no
\* flip of idx in between, is the value it had before the first; and every
\* byte of the raw store is 0 or 1.
C5_DoubleFlipRestores ==
    /\ \A k \in 1 .. Len(raw_mem) : raw_mem[k] \in {0, 1}
    /\ \A t \in 1 .. Len(raw_trace) : \A k \in 1 .. Len(raw_trace[t]) :
          raw_trace[t][k] \in {0, 1}
    /\ \A j \in 1 .. Len(raw_trace) - 1 : \A k \in j + 1 .. Len(raw_trace) - 1 :
          (/\ indices[j] = indices[k]
           /\ \A m \in j + 1 .. k - 1 : indices[m] # indices[j])
          => raw_trace[k + 1][indices[j] + 1] = raw_trace[j][indices[j] + 1]
    /\ \A j \in 1 .. Len(vec_trace) - 1 : \A k \in j + 1 .. Len(vec_trace) - 1 :
          (/\ indices[j] = indices[k]
           /\ \A m \in j + 1 .. k - 1 : indices[m] # indices[j])
          => vec_trace[k + 1][indices[j]] = vec_trace[j][indices[j]]

\* C5 witness: the packed loop has flipped one index twice with another
\* index flipped in between, after the raw loop did the same.
C5_Witness ==
    /\ pc = "vec_loop"
    /\ i >= 3
    /\ indices[1] = indices[3]
    /\ indices[2] # indices[1]
    /\ Len(raw_trace) = ACCESS_COUNT + 1

\* C6: a write to flag idx of the packed store changes only the word
\* idx / WORD_BIT, and in it only the bit idx % WORD_BIT; the flag then reads
\* as the value written and every other flag reads as before.
C6_WriteTouchesOneBit ==
    [][(pc = "vec_loop" /\ i' = i + 1) =>
        LET idx == indices[i + 1]
            w == (idx \div WORD_BIT) + 1
            bit == Pow2(idx % WORD_BIT)
            before == (bool_vec[w] \div bit) % 2
            v == 1 - before
        IN  /\ Len(bool_vec') = Len(bool_vec)
            /\ \A x \in 1 .. Len(bool_vec) : x # w => bool_vec'[x] = bool_vec[x]
            /\ bool_vec'[w] = bool_vec[w] + (v - before) * bit
            /\ sink' = (v = 1)
            /\ \A j \in 0 .. ITEM_COUNT - 1 :
                  LET after == (bool_vec'[(j \div WORD_BIT) + 1]
                                  \div Pow2(j % WORD_BIT)) % 2
                      old == (bool_vec[(j \div WORD_BIT) + 1]
                                  \div Pow2(j % WORD_BIT)) % 2
                  IN  after = (IF j = idx THEN v ELSE old)
    ]_vars

\* C6 witness: a flag has just been written while a sibling flag of the
\* same word, written earlier, is still true.
C6_Witness ==
    /\ pc = "vec_loop"
    /\ i >= 2
    /\ indices[i] # indices[i - 1]
    /\ indices[i] \div WORD_BIT = indices[i - 1] \div WORD_BIT
    /\ GetFlag(bool_vec, indices[i - 1])
    /\ GetFlag(bool_vec, indices[i])

IsReport(l) == l.kind = "report"
IsTimerEnd(e) == e \in {"raw_report", "vec_report"}

\* C7: every Timer scope that has ended has written exactly one report
\* line, and every reported millisecond value is >= 0.
C7_OneNonNegativeReport ==
    /\ Len(SelectSeq(out, IsReport)) = Len(SelectSeq(events, IsTimerEnd))
    /\ \A k \in 1 .. Len(out) : IsReport(out[k]) => out[k].ms.num >= 0

\* C7, the part the code does keep: one report line per ended Timer scope,
\* none while a scope is open.
C7_OneReportPerScope ==
    Len(SelectSeq(out, IsReport)) = Len(SelectSeq(events, IsTimerEnd))

LifecycleOrder ==
    << "raw_alloc", "raw_timer_start", "raw_report", "raw_dealloc",
       "vec_alloc", "vec_timer_start", "vec_report", "vec_dealloc" >>

\* C8: the lifecycle events of a run are a prefix of: raw buffer allocated,
\* raw timer started, raw report, raw buffer deallocated, packed buffer
\* allocated, packed timer started, packed report, packed buffer
\* deallocated; a run that ends normally has them all.  A buffer is live
\* exactly between its allocation and its deallocation, so never two at once.
C8_LifecycleOrder ==
    /\ Len(events) <= Len(LifecycleOrder)
    /\ \A k \in 1 .. Len(events) : events[k] = LifecycleOrder[k]
    /\ pc = "done" => events = LifecycleOrder
    /\ live = IF Len(events) \in 1 .. 3 THEN {"raw_mem"}
              ELSE IF Len(events) \in 5 .. 7 THEN {"bool_vec"}
              ELSE {}
    /\ timer # NoTimer <=> Len(events) \in {2, 6}

\* C8 witness: a run has ended normally.
C8_Witness ==
    /\ pc = "done"
    /\ Len(events) = 8
    /\ live = {}

C10_FiveLines ==
    pc = "done" =>
        /\ Len(out) = 5
        /\ out[1].kind = "text" /\ out[1].text # ""
        /\ out[2] = BlankLine
        /\ IsReport(out[3]) /\ out[3].text = RawLabel
        /\ IsReport(out[4]) /\ out[4].text = VecLabel
        /\ out[5] = BlankLine

\* C10 amended: a successful run writes six lines: the two progress lines
\* "Generating ..." and "Done generating indices.", a blank line, the raw
\* report, the packed report, a blank line.
C10_SixLines ==
    pc = "done" =>
        /\ Len(out) = 6
        /\ out[1] = TextLine(GeneratingText)
        /\ out[2] = TextLine(DoneText)
        /\ out[3] = BlankLine
        /\ IsReport(out[4]) /\ out[4].text = RawLabel
        /\ IsReport(out[5]) /\ out[5].text = VecLabel
        /\ out[6] = BlankLine

\* C10 witness: a run has ended normally with its output complete.
C10_Witness ==
    /\ pc = "done"
    /\ Len(out) >= 5
    /\ out[Len(out)] = BlankLine

====
